---- MODULE Spec2Model ----
(***************************************************************************)
(* Model of socceraction/spadl/kloppy.py: the conversion of a kloppy event *)
(* data set to SPADL actions.                                              *)
(*                                                                         *)
(* Python's None is the string "None" where the other values are strings   *)
(* and the empty tuple <<>> where they are numbers or points: an optional  *)
(* number v is <<v>>, a point is <<x, y>>.                                 *)
(***************************************************************************)
EXTENDS Integers, Sequences, FiniteSets, TLC

VARIABLES
    pc,                 \* position in module load / convert_to_actions
    kloppy_installed,   \* environment: can kloppy.domain be imported
    _has_kloppy,        \* the module flag of lines 12-39
    err,                \* the exception that ended the run, or "None"
    dataset,            \* the argument of convert_to_actions: provider + events
    new_dataset,        \* the events after dataset.transform
    actions,            \* the list / DataFrame of action records
    event,              \* input of the per-event functions
    location,           \* result of _get_end_location(event)
    parsed              \* result of the classifier on event

vars == <<pc, kloppy_installed, _has_kloppy, err, dataset, new_dataset,
          actions, event, location, parsed>>

None == "None"
Null == <<>>

(***************************************************************************)
(* kloppy.domain enumerations used by the converter.                       *)
(***************************************************************************)
MappedEventTypes == {"GENERIC", "PASS", "SHOT", "TAKE_ON", "CARRY", "RECOVERY"}
EventTypes == MappedEventTypes \cup {"FOUL_COMMITTED", "BALL_OUT"}

SetPieceTypes == {"FREE_KICK", "CORNER_KICK", "GOAL_KICK", "THROW_IN", "PENALTY"}
PassTypes == {"CHIPPED_PASS", "CROSS", "HIGH_PASS"}
BodyParts == {"HEAD", "RIGHT_FOOT", "LEFT_FOOT", "CHEST", "OTHER", "DROP_KICK"}
QualifierValues == SetPieceTypes \cup PassTypes \cup BodyParts

PassResults == {"COMPLETE", "INCOMPLETE", "OUT", "OFFSIDE", None}
ShotResults == {"GOAL", "OWN_GOAL", "SAVED", "OFF_TARGET", None}
TakeOnResults == {"COMPLETE", "INCOMPLETE", None}

ResultsOf(t) ==
    CASE t = "PASS" -> PassResults
      [] t = "SHOT" -> ShotResults
      [] t = "TAKE_ON" -> TakeOnResults
      [] OTHER -> {None}

(***************************************************************************)
(* The event class of an event type: PassEvent, CarryEvent and ShotEvent   *)
(* are the classes _get_end_location tests with isinstance.                *)
(***************************************************************************)
IsPassEvent(e) == e.event_type = "PASS"
IsCarryEvent(e) == e.event_type = "CARRY"
IsShotEvent(e) == e.event_type = "SHOT"

\* Truth value of an optional Point: None is false, every Point is true.
Known(p) == p # Null

(***************************************************************************)
(* _get_end_location, lines 121-142.                                       *)
(***************************************************************************)
PointDict(p) == [end_x |-> <<p[1]>>, end_y |-> <<p[2]>>]

StartOrNull(e) ==
    IF Known(e.coordinates)
    THEN PointDict(e.coordinates)
    ELSE [end_x |-> Null, end_y |-> Null]

\* A plausible slip: the receiver's location is used for every pass.
_get_end_location_any_pass(e) ==
    IF IsPassEvent(e)
    THEN IF Known(e.receiver_coordinates)
         THEN PointDict(e.receiver_coordinates) ELSE StartOrNull(e)
    ELSE IF IsCarryEvent(e)
    THEN IF Known(e.end_coordinates)
         THEN PointDict(e.end_coordinates) ELSE StartOrNull(e)
    ELSE IF IsShotEvent(e)
    THEN IF Known(e.result_coordinates)
         THEN PointDict(e.result_coordinates) ELSE StartOrNull(e)
    ELSE StartOrNull(e)

_get_end_location(e) ==
    IF IsPassEvent(e) /\ e.result = "COMPLETE"
    THEN IF Known(e.receiver_coordinates)
         THEN PointDict(e.receiver_coordinates) ELSE StartOrNull(e)
    ELSE IF IsCarryEvent(e)
    THEN IF Known(e.end_coordinates)
         THEN PointDict(e.end_coordinates) ELSE StartOrNull(e)
    ELSE IF IsShotEvent(e)
    THEN IF Known(e.result_coordinates)
         THEN PointDict(e.result_coordinates) ELSE StartOrNull(e)
    ELSE StartOrNull(e)

(***************************************************************************)
(* _qualifiers, lines 178-181: the values of the event's qualifiers, the   *)
(* empty list when the event has none.  event.qualifiers is a set of       *)
(* qualifier values, or NoQualifiers when the attribute is None.           *)
(***************************************************************************)
NoQualifiers == {None}
_qualifiers(e) == IF e.qualifiers = NoQualifiers THEN {} ELSE e.qualifiers

Triple(a, r, b) == [a |-> a, r |-> r, b |-> b]

\* lines 184-188
_parse_event_as_non_action(e) == Triple("non_action", "success", "foot")

(***************************************************************************)
(* _parse_pass_event, lines 191-239.                                       *)
(***************************************************************************)
PassCrossed(q) ==
    "CHIPPED_PASS" \in q \/ "CROSS" \in q \/ "HIGH_PASS" \in q

\* A plausible slip: the corner-kick test placed before the free-kick test.
PassActionType_corner_first(q) ==
    IF "CORNER_KICK" \in q
    THEN IF PassCrossed(q) THEN "corner_crossed" ELSE "corner_short"
    ELSE IF "FREE_KICK" \in q
    THEN IF PassCrossed(q) THEN "freekick_crossed" ELSE "freekick_short"
    ELSE IF "GOAL_KICK" \in q THEN "goalkick"
    ELSE IF "THROW_IN" \in q THEN "throw_in"
    ELSE IF "CROSS" \in q THEN "cross"
    ELSE "pass"

\* lines 195-221
PassActionType(q) ==
    IF "FREE_KICK" \in q
    THEN IF PassCrossed(q) THEN "freekick_crossed" ELSE "freekick_short"
    ELSE IF "CORNER_KICK" \in q
    THEN IF PassCrossed(q) THEN "corner_crossed" ELSE "corner_short"
    ELSE IF "GOAL_KICK" \in q THEN "goalkick"
    ELSE IF "THROW_IN" \in q THEN "throw_in"
    ELSE IF "CROSS" \in q THEN "cross"
    ELSE "pass"

\* lines 223-228
PassActionResult(result) ==
    IF result \in {"INCOMPLETE", "OUT"} THEN "fail"
    ELSE IF result = "OFFSIDE" THEN "offside"
    ELSE "success"

\* lines 230-237
PassBodyPart(q) ==
    IF "HEAD" \in q THEN "head"
    ELSE IF "RIGHT_FOOT" \in q \/ "LEFT_FOOT" \in q THEN "foot"
    ELSE IF "CHEST" \in q \/ "OTHER" \in q THEN "other"
    ELSE "foot"

_parse_pass_event(e) ==
    LET q == _qualifiers(e)
    IN  Triple(PassActionType(q), PassActionResult(e.result), PassBodyPart(q))

(***************************************************************************)
(* _parse_shot_event, lines 242-271.                                       *)
(***************************************************************************)
\* lines 245-250
ShotActionType(q) ==
    IF "FREE_KICK" \in q THEN "shot_freekick"
    ELSE IF "PENALTY" \in q THEN "shot_penalty"
    ELSE "shot"

\* lines 260-269
ShotBodyPart(q) ==
    IF "HEAD" \in q THEN "head"
    ELSE IF "RIGHT_FOOT" \in q \/ "LEFT_FOOT" \in q \/ "DROP_KICK" \in q
    THEN "foot"
    ELSE "other"

\* A plausible slip: the own-goal branch sets the result and leaves the type.
_parse_shot_event_no_override(e) ==
    LET q == _qualifiers(e)
        r == IF e.result = "GOAL" THEN "success"
             ELSE IF e.result = "OWN_GOAL" THEN "own_goal"
             ELSE "fail"
    IN  Triple(ShotActionType(q), r, ShotBodyPart(q))

_parse_shot_event(e) ==
    LET q == _qualifiers(e)
        a0 == ShotActionType(q)
        a == IF e.result = "OWN_GOAL" THEN "bad_touch" ELSE a0
        r == IF e.result = "GOAL" THEN "success"
             ELSE IF e.result = "OWN_GOAL" THEN "own_goal"
             ELSE "fail"
    IN  Triple(a, r, ShotBodyPart(q))

\* lines 274-284
_parse_dribble_event(e) ==
    Triple("take_on", IF e.result = "COMPLETE" THEN "success" ELSE "fail", "foot")

\* lines 287-291
_parse_carry_event(e) == Triple("dribble", "success", "foot")

\* lines 294-298
_parse_interception_event(e) == Triple("interception", "success", "foot")

\* lines 301-306
_parse_foul_event(e) == Triple("foul", "success", "foot")

(***************************************************************************)
(* The dispatch of _parse_event, lines 146-170: events.get(event_type,     *)
(* _parse_event_as_non_action) applied to the event.                       *)
(***************************************************************************)
\* A plausible slip: the foul mapper entered in the dispatch table.
Dispatch_with_foul(e) ==
    CASE e.event_type = "GENERIC" -> _parse_event_as_non_action(e)
      [] e.event_type = "PASS" -> _parse_pass_event(e)
      [] e.event_type = "SHOT" -> _parse_shot_event(e)
      [] e.event_type = "TAKE_ON" -> _parse_dribble_event(e)
      [] e.event_type = "CARRY" -> _parse_carry_event(e)
      [] e.event_type = "RECOVERY" -> _parse_interception_event(e)
      [] e.event_type = "FOUL_COMMITTED" -> _parse_foul_event(e)
      [] OTHER -> _parse_event_as_non_action(e)

Dispatch(e) ==
    CASE e.event_type = "GENERIC" -> _parse_event_as_non_action(e)
      [] e.event_type = "PASS" -> _parse_pass_event(e)
      [] e.event_type = "SHOT" -> _parse_shot_event(e)
      [] e.event_type = "TAKE_ON" -> _parse_dribble_event(e)
      [] e.event_type = "CARRY" -> _parse_carry_event(e)
      [] e.event_type = "RECOVERY" -> _parse_interception_event(e)
      [] OTHER -> _parse_event_as_non_action(e)

(***************************************************************************)
(* spadlconfig.actiontypes / results / bodyparts: the vocabulary tables    *)
(* (names to ordinal codes).  list.index raises ValueError for a name the  *)
(* list does not hold.                                                     *)
(***************************************************************************)
actiontypes ==
    <<"pass", "cross", "throw_in", "freekick_short", "freekick_crossed",
      "corner_short", "corner_crossed", "goalkick", "shot", "shot_freekick",
      "shot_penalty", "take_on", "dribble", "interception", "bad_touch",
      "foul", "non_action">>
results == <<"success", "fail", "offside", "own_goal">>
bodyparts == <<"foot", "head", "other">>

Has(list, v) == \E i \in 1..Len(list) : list[i] = v
index(list, v) == (CHOOSE i \in 1..Len(list) : list[i] = v) - 1

\* spadlconfig.actiontypes.index("non_action"), line 94
non_action_id == index(actiontypes, "non_action")

\* lines 169-175
_parse_event_raises(e) ==
    LET t == Dispatch(e)
    IN  ~Has(actiontypes, t.a) \/ ~Has(results, t.r) \/ ~Has(bodyparts, t.b)

_parse_event(e) ==
    LET t == Dispatch(e)
    IN  [type_id |-> index(actiontypes, t.a),
         result_id |-> index(results, t.r),
         bodypart_id |-> index(bodyparts, t.b)]

(***************************************************************************)
(* Events.  An event is a record of the attributes the converter reads.    *)
(***************************************************************************)
MkEvent(t, q, res, c, rc, ec, sc) ==
    [event_id |-> 0, event_type |-> t, period |-> 1, timestamp |-> 0,
     team |-> "home", player |-> "p1", coordinates |-> c,
     qualifiers |-> q, result |-> res,
     receiver_coordinates |-> rc, end_coordinates |-> ec,
     result_coordinates |-> sc]

NoEvent == MkEvent("GENERIC", NoQualifiers, None, Null, Null, Null, Null)
NoLocation == [end_x |-> Null, end_y |-> Null]
NoTriple == Triple(None, None, None)

\* Raw points of the provider, and the optional points.
Points == {<<0, 0>>, <<10, 20>>, <<50, 30>>}
OptPoints == Points \cup {Null}

(***************************************************************************)
(* Specification of the classifier alone: one event of any type, with any  *)
(* combination of qualifier values and any result of its type, is handed   *)
(* to the parser the dispatch table selects (line 169-170).                *)
(***************************************************************************)
ClassifierEventsOf(t) ==
    { MkEvent(t, q, res, Null, Null, Null, Null) :
        q \in (SUBSET QualifierValues) \cup {NoQualifiers},
        res \in ResultsOf(t) }

InitClassifier ==
    /\ pc = "classify"
    /\ kloppy_installed = TRUE
    /\ _has_kloppy = TRUE
    /\ err = None
    /\ dataset = <<>>
    /\ new_dataset = <<>>
    /\ actions = <<>>
    /\ \E t \in EventTypes : event \in ClassifierEventsOf(t)
    /\ location = NoLocation
    /\ parsed = NoTriple

ParsePass ==
    /\ pc = "classify"
    /\ event.event_type = "PASS"
    /\ parsed' = _parse_pass_event(event)
    /\ pc' = "classified"
    /\ UNCHANGED <<kloppy_installed, _has_kloppy, err, dataset, new_dataset,
                   actions, event, location>>

ParseShot ==
    /\ pc = "classify"
    /\ event.event_type = "SHOT"
    /\ parsed' = _parse_shot_event(event)
    /\ pc' = "classified"
    /\ UNCHANGED <<kloppy_installed, _has_kloppy, err, dataset, new_dataset,
                   actions, event, location>>

ParseOther ==
    /\ pc = "classify"
    /\ event.event_type \notin {"PASS", "SHOT"}
    /\ parsed' = Dispatch(event)
    /\ pc' = "classified"
    /\ UNCHANGED <<kloppy_installed, _has_kloppy, err, dataset, new_dataset,
                   actions, event, location>>

NextClassifier == ParsePass \/ ParseShot \/ ParseOther

SpecClassifier == InitClassifier /\ [][NextClassifier]_vars

(***************************************************************************)
(* Specification of the location resolver alone: one event of any type,    *)
(* any result, and any combination of known / unknown start and            *)
(* type-specific locations is handed to _get_end_location.                 *)
(***************************************************************************)
LocationEvents ==
    { MkEvent(t, NoQualifiers, res, c, rc, ec, sc) :
        t \in EventTypes,
        res \in PassResults \cup ShotResults \cup TakeOnResults,
        c \in OptPoints, rc \in OptPoints, ec \in OptPoints, sc \in OptPoints }

\* receiver_coordinates, end_coordinates and result_coordinates are
\* attributes of PassEvent, CarryEvent and ShotEvent only.
WellFormed(e) ==
    /\ e.result \in ResultsOf(e.event_type)
    /\ (~IsPassEvent(e) => e.receiver_coordinates = Null)
    /\ (~IsCarryEvent(e) => e.end_coordinates = Null)
    /\ (~IsShotEvent(e) => e.result_coordinates = Null)

InitLocation ==
    /\ pc = "locate"
    /\ kloppy_installed = TRUE
    /\ _has_kloppy = TRUE
    /\ err = None
    /\ dataset = <<>>
    /\ new_dataset = <<>>
    /\ actions = <<>>
    /\ event \in { e \in LocationEvents : WellFormed(e) }
    /\ location = NoLocation
    /\ parsed = NoTriple

GetEndLocation ==
    /\ pc = "locate"
    /\ location' = _get_end_location(event)
    /\ pc' = "located"
    /\ UNCHANGED <<kloppy_installed, _has_kloppy, err, dataset, new_dataset,
                   actions, event, parsed>>

NextLocation == GetEndLocation

SpecLocation == InitLocation /\ [][NextLocation]_vars

(***************************************************************************)
(* The conversion pipeline: module load (lines 12-39, 42, 100) and         *)
(* convert_to_actions (lines 64-97).                                       *)
(***************************************************************************)
MaxEvents == 3

field_width == 68

\* The events one match's data set is drawn from: one event of every
\* mapped type, and one of a type outside the dispatch table, at each time.
Times == {<<1, 5>>, <<2, 0>>}

EventOf(t, tm) ==
    LET base == [MkEvent(t, NoQualifiers, None, <<10, 20>>, Null, Null, Null)
                 EXCEPT !.period = tm[1], !.timestamp = tm[2]]
    IN  CASE t = "PASS" ->
               [base EXCEPT !.qualifiers = {"FREE_KICK", "CROSS"},
                            !.result = "COMPLETE",
                            !.receiver_coordinates = <<50, 30>>]
          [] t = "SHOT" ->
               [base EXCEPT !.qualifiers = {"PENALTY", "HEAD"},
                            !.result = "OWN_GOAL", !.team = "away",
                            !.player = "p2", !.coordinates = <<50, 30>>]
          [] t = "TAKE_ON" ->
               [base EXCEPT !.qualifiers = {}, !.result = "INCOMPLETE",
                            !.team = "away"]
          [] t = "CARRY" ->
               [base EXCEPT !.player = None, !.end_coordinates = <<0, 0>>]
          [] t = "RECOVERY" ->
               [base EXCEPT !.team = None, !.player = "p2",
                            !.coordinates = Null]
          [] t = "GENERIC" ->
               [base EXCEPT !.team = None, !.player = None,
                            !.coordinates = Null]
          [] OTHER ->
               [base EXCEPT !.team = "away", !.player = "p2",
                            !.coordinates = <<0, 0>>]

PipelineEventTypes == EventTypes \ {"BALL_OUT"}

EventPool == { EventOf(t, tm) : t \in PipelineEventTypes, tm \in Times }

\* The vertical orientation of the provider's coordinate system.
Providers == {"TOP_TO_BOTTOM", "BOTTOM_TO_TOP"}

\* An event collection: event_id is the event's position in the collection.
EventList(f) == [i \in DOMAIN f |-> [f[i] EXCEPT !.event_id = i]]

(***************************************************************************)
(* dataset.transform, lines 67-70, to _SoccerActionCoordinateSystem        *)
(* (lines 100-118): origin bottom left, vertical axis bottom to top.       *)
(***************************************************************************)
TransformPoint(provider, p) ==
    IF Known(p) /\ provider = "TOP_TO_BOTTOM"
    THEN <<p[1], field_width - p[2]>>
    ELSE p

TransformEvent(provider, e) ==
    [e EXCEPT !.coordinates = TransformPoint(provider, @),
              !.receiver_coordinates = TransformPoint(provider, @),
              !.end_coordinates = TransformPoint(provider, @),
              !.result_coordinates = TransformPoint(provider, @)]

Transform(ds) ==
    [i \in 1..Len(ds.events) |-> TransformEvent(ds.provider, ds.events[i])]

(***************************************************************************)
(* The action record of one event, lines 74-85.  index is the DataFrame's  *)
(* row label; action_id is Null until the column is assigned (line 95).    *)
(***************************************************************************)
OptX(p) == IF Known(p) THEN <<p[1]>> ELSE Null
OptY(p) == IF Known(p) THEN <<p[2]>> ELSE Null

ActionOf(e, i) ==
    LET loc == _get_end_location(e)
        ids == _parse_event(e)
    IN  [index |-> i,
         game_id |-> 0,
         original_event_id |-> <<e.event_id>>,
         period_id |-> e.period,
         time_seconds |-> e.timestamp,
         team_id |-> e.team,
         player_id |-> e.player,
         start_x |-> OptX(e.coordinates),
         start_y |-> OptY(e.coordinates),
         end_x |-> loc.end_x,
         end_y |-> loc.end_y,
         type_id |-> ids.type_id,
         result_id |-> ids.result_id,
         bodypart_id |-> ids.bodypart_id,
         action_id |-> Null]

(***************************************************************************)
(* sort_values(["game_id", "period_id", "time_seconds"]), lines 88-91:     *)
(* pandas sorts several columns with a lexicographic sort that keeps rows  *)
(* of equal keys in their order.  reset_index(drop=True) relabels the rows *)
(* 0 .. n-1.                                                               *)
(***************************************************************************)
\* A plausible slip: the period left out of the sort key.
KeyLess_no_period(a, b) ==
    \/ a.game_id < b.game_id
    \/ a.game_id = b.game_id /\ a.time_seconds < b.time_seconds

KeyLess(a, b) ==
    \/ a.game_id < b.game_id
    \/ a.game_id = b.game_id /\ a.period_id < b.period_id
    \/ a.game_id = b.game_id /\ a.period_id = b.period_id
       /\ a.time_seconds < b.time_seconds

\* r inserted after the last row whose key is not greater than r's.
Insert(sorted, r) ==
    LET k == Cardinality({ j \in 1..Len(sorted) : ~KeyLess(r, sorted[j]) })
    IN  SubSeq(sorted, 1, k) \o <<r>> \o SubSeq(sorted, k + 1, Len(sorted))

RECURSIVE SortValues(_)
SortValues(rows) ==
    IF rows = <<>> THEN <<>>
    ELSE Insert(SortValues(SubSeq(rows, 1, Len(rows) - 1)), rows[Len(rows)])

ResetIndex(rows) == [i \in 1..Len(rows) |-> [rows[i] EXCEPT !.index = i - 1]]

\* line 94: the rows whose type is not non_action, in their order.
\* A plausible slip: == written for !=.
IsAction_inverted(row) == row.type_id = non_action_id

\* A plausible slip: the filter compares with the wrong vocabulary entry.
IsAction_not_foul(row) == row.type_id # index(actiontypes, "foul")

IsAction(row) == row.type_id # non_action_id

RECURSIVE FilterNonAction(_)
FilterNonAction(rows) ==
    IF rows = <<>> THEN <<>>
    ELSE IF IsAction(Head(rows))
         THEN <<Head(rows)>> \o FilterNonAction(Tail(rows))
         ELSE FilterNonAction(Tail(rows))

\* line 95
\* A plausible slip: the row labels of the sorted table used as identifiers.
AssignActionIds_from_index(rows) ==
    [i \in 1..Len(rows) |-> [rows[i] EXCEPT !.action_id = <<rows[i].index>>]]

AssignActionIds(rows) ==
    [i \in 1..Len(rows) |-> [rows[i] EXCEPT !.action_id = <<i - 1>>]]

(***************************************************************************)
(* _add_dribbles (spadl/base.py), line 96: may insert a synthetic dribble  *)
(* between two consecutive actions whose locations differ, keeping the     *)
(* chronological order, and renumbers the actions.                         *)
(***************************************************************************)
DribbleGaps(rows) ==
    { i \in 1..(Len(rows) - 1) :
        /\ rows[i].period_id = rows[i + 1].period_id
        /\ rows[i].end_x # Null /\ rows[i + 1].start_x # Null
        /\ <<rows[i].end_x, rows[i].end_y>>
             # <<rows[i + 1].start_x, rows[i + 1].start_y>> }

Dribble(prev, nxt) ==
    [index |-> prev.index,
     game_id |-> nxt.game_id,
     original_event_id |-> Null,
     period_id |-> nxt.period_id,
     time_seconds |-> prev.time_seconds,
     team_id |-> nxt.team_id,
     player_id |-> nxt.player_id,
     start_x |-> prev.end_x,
     start_y |-> prev.end_y,
     end_x |-> nxt.start_x,
     end_y |-> nxt.start_y,
     type_id |-> index(actiontypes, "dribble"),
     result_id |-> index(results, "success"),
     bodypart_id |-> index(bodyparts, "foot"),
     action_id |-> Null]

RECURSIVE WithDribbles(_, _, _)
WithDribbles(rows, gaps, i) ==
    IF i > Len(rows) THEN <<>>
    ELSE <<rows[i]>>
         \o (IF i \in gaps THEN <<Dribble(rows[i], rows[i + 1])>> ELSE <<>>)
         \o WithDribbles(rows, gaps, i + 1)

(***************************************************************************)
(* Actions.                                                                *)
(***************************************************************************)
Init ==
    /\ pc = "import"
    /\ kloppy_installed \in BOOLEAN
    /\ _has_kloppy = TRUE
    /\ err = None
    /\ dataset = <<>>
    /\ new_dataset = <<>>
    /\ actions = <<>>
    /\ event = NoEvent
    /\ location = NoLocation
    /\ parsed = NoTriple

\* Lines 12-39 set the flag.  Lines 42 and 100 then use names of
\* kloppy.domain (the annotation EventDataset, the base class
\* CoordinateSystem) while the module is executed: unbound names when the
\* import failed.
LoadModule ==
    /\ pc = "import"
    /\ _has_kloppy' = kloppy_installed
    /\ IF kloppy_installed
       THEN pc' = "loaded" /\ err' = None
       ELSE pc' = "raised" /\ err' = "NameError"
    /\ UNCHANGED <<kloppy_installed, dataset, new_dataset, actions, event,
                   location, parsed>>

\* convert_to_actions, lines 64-70: the availability check, then the
\* transform of the data set.
Call ==
    /\ pc = "loaded"
    /\ \E provider \in Providers, n \in 0..MaxEvents :
       \E f \in [1..n -> EventPool] :
         /\ dataset' = [provider |-> provider, events |-> EventList(f)]
         /\ IF ~_has_kloppy
            THEN pc' = "raised" /\ err' = "ImportError"
                 /\ new_dataset' = new_dataset
            ELSE pc' = "transformed" /\ err' = None
                 /\ new_dataset' = Transform(dataset')
    /\ UNCHANGED <<kloppy_installed, _has_kloppy, actions, event, location,
                   parsed>>

\* lines 72-86
BuildActions ==
    /\ pc = "transformed"
    /\ IF \E i \in 1..Len(new_dataset) : _parse_event_raises(new_dataset[i])
       THEN pc' = "raised" /\ err' = "ValueError" /\ actions' = actions
       ELSE /\ pc' = "built" /\ err' = None
            /\ actions' = [i \in 1..Len(new_dataset) |->
                             ActionOf(new_dataset[i], i - 1)]
    /\ UNCHANGED <<kloppy_installed, _has_kloppy, dataset, new_dataset, event,
                   location, parsed>>

\* lines 88-92.  A DataFrame built from an empty list has no columns, and
\* sort_values raises KeyError for a column the frame does not have.
Sort ==
    /\ pc = "built"
    /\ IF actions = <<>>
       THEN pc' = "raised" /\ err' = "KeyError" /\ actions' = actions
       ELSE /\ pc' = "sorted" /\ err' = None
            /\ actions' = ResetIndex(SortValues(actions))
    /\ UNCHANGED <<kloppy_installed, _has_kloppy, dataset, new_dataset, event,
                   location, parsed>>

\* line 94
Filter ==
    /\ pc = "sorted"
    /\ actions' = FilterNonAction(actions)
    /\ pc' = "filtered"
    /\ UNCHANGED <<kloppy_installed, _has_kloppy, err, dataset, new_dataset,
                   event, location, parsed>>

\* line 95
AssignIds ==
    /\ pc = "filtered"
    /\ actions' = AssignActionIds(actions)
    /\ pc' = "assigned"
    /\ UNCHANGED <<kloppy_installed, _has_kloppy, err, dataset, new_dataset,
                   event, location, parsed>>

\* line 96
AddDribbles ==
    /\ pc = "assigned"
    /\ \E gaps \in SUBSET DribbleGaps(actions) :
         actions' = AssignActionIds(ResetIndex(WithDribbles(actions, gaps, 1)))
    /\ pc' = "dribbled"
    /\ UNCHANGED <<kloppy_installed, _has_kloppy, err, dataset, new_dataset,
                   event, location, parsed>>

\* line 97: the schema validation returns the table or raises.
ValidateOk ==
    /\ pc = "dribbled"
    /\ pc' = "done"
    /\ UNCHANGED <<kloppy_installed, _has_kloppy, err, dataset, new_dataset,
                   actions, event, location, parsed>>

ValidateFail ==
    /\ pc = "dribbled"
    /\ pc' = "raised"
    /\ err' = "SchemaError"
    /\ UNCHANGED <<kloppy_installed, _has_kloppy, dataset, new_dataset,
                   actions, event, location, parsed>>

Next ==
    \/ LoadModule
    \/ Call
    \/ BuildActions
    \/ Sort
    \/ Filter
    \/ AssignIds
    \/ AddDribbles
    \/ ValidateOk
    \/ ValidateFail

Spec == Init /\ [][Next]_vars

(***************************************************************************)
(* The classifier and the pipeline together: the behaviours of both.       *)
(***************************************************************************)
InitConverter == Init \/ InitClassifier

NextConverter == Next \/ NextClassifier

SpecConverter == InitConverter /\ [][NextConverter]_vars

(***************************************************************************)
(* Properties.                                                             *)
(***************************************************************************)
\* The table exists with its final rows: after line 94.
AfterFilter ==
    \/ pc \in {"filtered", "assigned", "dribbled", "done"}
    \/ pc = "raised" /\ err = "SchemaError"

AfterBuild == pc \in {"built", "sorted"} \/ AfterFilter

\* The event a row was built from (rows of _add_dribbles have none).
HasEvent(row) == row.original_event_id # Null
EventOfRow(row) == new_dataset[row.original_event_id[1]]

RowsOf(i) == { k \in 1..Len(actions) : actions[k].original_event_id = <<i>> }

ActionEventTypes == {"PASS", "SHOT", "TAKE_ON", "CARRY", "RECOVERY"}

\* C1: without kloppy the only error is the ImportError of the entry
\* point, raised before any event is processed; module load raises nothing.
C1_OnlyImportErrorWithoutKloppy ==
    ~kloppy_installed =>
        /\ err \in {None, "ImportError"}
        /\ pc \in {"import", "loaded", "raised"}
        /\ (pc = "raised" => err = "ImportError" /\ actions = <<>>)

\* C2: with kloppy available no step of convert_to_actions before the
\* schema validation raises, whatever the event collection (the empty
\* collection included).
C2_NoStepRaisesBeforeValidation ==
    kloppy_installed => err \in {None, "SchemaError"}

C3_NonActionId == index(actiontypes, "non_action")

\* C3: after the filter step no row has type non_action, and no row was
\* built from a generic event or an event of a type outside the dispatch
\* table.
C3_NoNonActionAfterFilter ==
    AfterFilter =>
        \A k \in 1..Len(actions) :
            /\ actions[k].type_id # C3_NonActionId
            /\ HasEvent(actions[k]) =>
                   /\ EventOfRow(actions[k]).event_type \in MappedEventTypes
                   /\ EventOfRow(actions[k]).event_type # "GENERIC"

C3_Witness ==
    /\ pc = "filtered"
    /\ Len(new_dataset) = 3
    /\ new_dataset[1].event_type = "PASS"
    /\ new_dataset[2].event_type = "FOUL_COMMITTED"
    /\ new_dataset[3].event_type = "GENERIC"
    /\ Len(actions) = 1

\* C4: after sort and filter the action identifiers of the n rows are
\* 0 .. n-1 in row order.
C4_DenseActionIds ==
    pc = "assigned" =>
        /\ \A k \in 1..Len(actions) : actions[k].action_id = <<k - 1>>
        /\ { actions[k].action_id[1] : k \in 1..Len(actions) }
             = 0..(Len(actions) - 1)
        /\ \A k \in 1..(Len(actions) - 1) :
               actions[k].action_id[1] < actions[k + 1].action_id[1]

\* Rows were discarded from the middle of the sorted table.
C4_Witness ==
    /\ pc = "assigned"
    /\ Len(actions) = 2
    /\ Len(new_dataset) = 3
    /\ actions[1].index = 0
    /\ actions[2].index = 2

C6_Qualifiers == IF event.qualifiers = NoQualifiers THEN {} ELSE event.qualifiers
C6_Crossed == C6_Qualifiers \cap {"CHIPPED_PASS", "CROSS", "HIGH_PASS"} # {}

\* C6: _parse_pass_event returns the triple of the reference rules for
\* every combination of qualifier values and every pass result.
C6_PassTriple ==
    (pc = "classified" /\ event.event_type = "PASS") =>
        LET q == C6_Qualifiers
            x == C6_Crossed
            fk == "FREE_KICK" \in q
            ck == "CORNER_KICK" \in q
            gk == "GOAL_KICK" \in q
            ti == "THROW_IN" \in q
            cr == "CROSS" \in q
        IN  /\ (fk /\ x => parsed.a = "freekick_crossed")
            /\ (fk /\ ~x => parsed.a = "freekick_short")
            /\ (~fk /\ ck /\ x => parsed.a = "corner_crossed")
            /\ (~fk /\ ck /\ ~x => parsed.a = "corner_short")
            /\ (~fk /\ ~ck /\ gk => parsed.a = "goalkick")
            /\ (~fk /\ ~ck /\ ~gk /\ ti => parsed.a = "throw_in")
            /\ (~fk /\ ~ck /\ ~gk /\ ~ti /\ cr => parsed.a = "cross")
            /\ (~fk /\ ~ck /\ ~gk /\ ~ti /\ ~cr => parsed.a = "pass")
            /\ (q = {"FREE_KICK", "CROSS"} => parsed.a = "freekick_crossed")
            /\ (q = {"CORNER_KICK"} => parsed.a = "corner_short")
            /\ (event.result \in {"INCOMPLETE", "OUT"} => parsed.r = "fail")
            /\ (event.result = "OFFSIDE" => parsed.r = "offside")
            /\ (event.result \in {"COMPLETE", None} => parsed.r = "success")
            /\ ("HEAD" \in q => parsed.b = "head")
            /\ ("HEAD" \notin q /\ q \cap {"RIGHT_FOOT", "LEFT_FOOT"} # {}
                  => parsed.b = "foot")
            /\ (q \cap {"HEAD", "RIGHT_FOOT", "LEFT_FOOT"} = {}
                  /\ q \cap {"CHEST", "OTHER"} # {} => parsed.b = "other")
            /\ (q \cap {"HEAD", "RIGHT_FOOT", "LEFT_FOOT", "CHEST", "OTHER"} = {}
                  => parsed.b = "foot")

\* Overlapping tags: free kick and corner kick, head and foot.
C6_Witness ==
    /\ pc = "classified"
    /\ event.event_type = "PASS"
    /\ event.qualifiers = {"FREE_KICK", "CORNER_KICK", "CROSS", "HEAD", "LEFT_FOOT"}
    /\ event.result = "OFFSIDE"
    /\ parsed = Triple("freekick_crossed", "offside", "head")

\* C7: _parse_shot_event gives bad_touch / own_goal for an own goal
\* whatever the tags, success for a goal and fail otherwise with the type
\* by the precedence free kick > penalty > shot; and over every classifier
\* output the result is own_goal exactly when the type is bad_touch.
C7_ShotTriple ==
    pc = "classified" =>
        /\ (parsed.r = "own_goal" <=> parsed.a = "bad_touch")
        /\ event.event_type = "SHOT" =>
               LET q == IF event.qualifiers = NoQualifiers
                        THEN {} ELSE event.qualifiers
                   a == IF "FREE_KICK" \in q THEN "shot_freekick"
                        ELSE IF "PENALTY" \in q THEN "shot_penalty"
                        ELSE "shot"
               IN  /\ (event.result = "OWN_GOAL" =>
                          parsed.a = "bad_touch" /\ parsed.r = "own_goal")
                   /\ (event.result = "GOAL" =>
                          parsed.a = a /\ parsed.r = "success")
                   /\ (event.result \notin {"GOAL", "OWN_GOAL"} =>
                          parsed.a = a /\ parsed.r = "fail")

C7_Witness ==
    /\ pc = "classified"
    /\ event.event_type = "SHOT"
    /\ event.result = "OWN_GOAL"
    /\ event.qualifiers = {"FREE_KICK", "PENALTY"}
    /\ parsed.a = "bad_touch"
    /\ parsed.r = "own_goal"

\* C8: _get_end_location follows the precedence receiver (complete pass) >
\* carry end > shot result location > start > null; both coordinates are
\* present or both null; a pass that is not complete ends where it starts.
C8_EndLocation ==
    pc = "located" =>
        LET e == event
            rule1 == e.event_type = "PASS" /\ e.result = "COMPLETE"
                     /\ e.receiver_coordinates # Null
            rule2 == e.event_type = "CARRY" /\ e.end_coordinates # Null
            rule3 == e.event_type = "SHOT" /\ e.result_coordinates # Null
            at(p) == location.end_x = <<p[1]>> /\ location.end_y = <<p[2]>>
        IN  /\ (rule1 => at(e.receiver_coordinates))
            /\ (~rule1 /\ rule2 => at(e.end_coordinates))
            /\ (~rule1 /\ ~rule2 /\ rule3 => at(e.result_coordinates))
            /\ (~rule1 /\ ~rule2 /\ ~rule3 /\ e.coordinates # Null
                  => at(e.coordinates))
            /\ (~rule1 /\ ~rule2 /\ ~rule3 /\ e.coordinates = Null
                  => location.end_x = Null /\ location.end_y = Null)
            /\ (location.end_x = Null <=> location.end_y = Null)
            /\ (e.event_type = "PASS" /\ e.result # "COMPLETE"
                  /\ e.coordinates # Null => at(e.coordinates))

\* A pass that is not complete, with a known receiver location elsewhere.
C8_Witness ==
    /\ pc = "located"
    /\ event.event_type = "PASS"
    /\ event.result = "INCOMPLETE"
    /\ event.coordinates = <<10, 20>>
    /\ event.receiver_coordinates = <<50, 30>>
    /\ location = [end_x |-> <<10>>, end_y |-> <<20>>]

\* The columns of a row other than the action identifier.
Columns(row) == [row EXCEPT !.action_id = Null, !.index = 0]

C9_OneRowPerActionEvent ==
    pc \in {"filtered", "assigned"} =>
        /\ \A i \in 1..Len(new_dataset) :
               Cardinality(RowsOf(i)) =
                   IF new_dataset[i].event_type \in ActionEventTypes
                   THEN 1 ELSE 0
        /\ \A k \in 1..Len(actions) :
               /\ HasEvent(actions[k])
               /\ LET row == actions[k]
                      e == EventOfRow(row)
                  IN  /\ row.original_event_id = <<e.event_id>>
                      /\ row.period_id = e.period
                      /\ row.time_seconds = e.timestamp
                      /\ row.team_id = e.team
                      /\ row.player_id = e.player
                      /\ (e.coordinates = Null =>
                            row.start_x = Null /\ row.start_y = Null)
                      /\ (e.coordinates # Null =>
                            /\ row.start_x = <<e.coordinates[1]>>
                            /\ row.start_y = <<e.coordinates[2]>>)

C9_StepKeepsColumns ==
    pc \in {"built", "sorted", "filtered"} =>
        \A k \in 1..Len(actions') :
            \E j \in 1..Len(actions) :
                Columns(actions'[k]) = Columns(actions[j])

\* C9: before carry synthesis the table holds exactly one row for every
\* pass, shot, take-on, carry and recovery event, with the event's
\* identifier, period, timestamp, team, player and start coordinates, and
\* the sort, filter and identifier steps change no column of a row but the
\* action identifier.
C9_OneRowPerEventUnchanged ==
    /\ []C9_OneRowPerActionEvent
    /\ [][C9_StepKeepsColumns]_vars

\* An own-goal shot and a recovery without team or location are retained
\* around a discarded event.
C9_Witness ==
    /\ pc = "assigned"
    /\ Len(new_dataset) = 3
    /\ new_dataset[1].event_type = "SHOT"
    /\ new_dataset[1].result = "OWN_GOAL"
    /\ new_dataset[2].event_type = "FOUL_COMMITTED"
    /\ new_dataset[3].event_type = "RECOVERY"
    /\ new_dataset[3].period < new_dataset[1].period
    /\ Len(actions) = 2
    /\ actions[1].original_event_id = <<3>>
    /\ actions[1].team_id = None
    /\ actions[1].start_x = Null

EmittedTypes ==
    {"pass", "cross", "throw_in", "freekick_short", "freekick_crossed",
     "corner_short", "corner_crossed", "goalkick", "shot", "shot_freekick",
     "shot_penalty", "bad_touch", "take_on", "dribble", "interception",
     "non_action"}

EmittedTypeIds == { index(actiontypes, t) : t \in EmittedTypes }
FoulId == index(actiontypes, "foul")

\* C10: the classifier never emits foul: a foul-committed event gets the
\* default triple and has no row in the output, and every emitted type is
\* one of the sixteen others.
C10_NeverFoul ==
    /\ pc = "classified" =>
           /\ parsed.a # "foul"
           /\ parsed.a \in EmittedTypes
           /\ (event.event_type = "FOUL_COMMITTED" =>
                 parsed = Triple("non_action", "success", "foot"))
    /\ AfterBuild =>
           \A k \in 1..Len(actions) :
               /\ actions[k].type_id # FoulId
               /\ actions[k].type_id \in EmittedTypeIds
               /\ (HasEvent(actions[k])
                     /\ EventOfRow(actions[k]).event_type = "FOUL_COMMITTED"
                   => /\ actions[k].type_id = C3_NonActionId
                      /\ ~AfterFilter)

C10_Witness ==
    /\ pc = "done"
    /\ Len(new_dataset) = 2
    /\ new_dataset[1].event_type = "FOUL_COMMITTED"
    /\ new_dataset[2].event_type = "TAKE_ON"
    /\ Len(actions) = 1

====
